---- MODULE Spec2Model ----
(***************************************************************************)
(* Model of estrangement/utils.py: match_labels, graph_distance and        *)
(* Estrangement.  Each function is a pure computation; a specification     *)
(* draws the inputs of one call in Init and one action applies the         *)
(* function.  Quotients (Jaccard similarity, distances, estrangement) are  *)
(* kept as exact fractions <<numerator, denominator>>.                     *)
(***************************************************************************)
EXTENDS Integers, FiniteSets, Sequences, TLC

VARIABLES pc,
          label_dict, prev_label_dict,
          overlap_graph, max_overlap_digraph, matched_label_dict,
          g0, g1, weighted, distance,
          G, Zgraph, estrangement

vars == <<pc, label_dict, prev_label_dict,
          overlap_graph, max_overlap_digraph, matched_label_dict,
          g0, g1, weighted, distance, G, Zgraph, estrangement>>

match_vars == <<overlap_graph, max_overlap_digraph, matched_label_dict>>
distance_vars == <<g0, g1, weighted, distance>>
estrangement_vars == <<G, Zgraph, estrangement>>

\* ---------------------------------------------------------------- bounds
MaxNode == 3
MaxEdges == 2
MaxWeight == 1

\* the nodes of the mappings given to match_labels
Nodes == 1..MaxNode
\* community labels are opaque identifiers; the same identifiers are
\* available to the mapping at t and to the mapping at t-1
Labels == {"a", "b", "c"}
\* the nodes of the graphs (opaque, hashable identifiers)
Vertices == {"u", "v", "w"}
\* Estrangement only compares labels for equality
TwoLabels == {"a", "b"}
\* edge weights are non-negative
Weights == 0..MaxWeight

\* the dictionaries {node: community} over any subset of the nodes N
LabelDicts(N, L) == UNION {[D -> L] : D \in SUBSET N}

\* the empty dictionary {}
EmptyDict == <<>>

\* the possible iteration orders of a dictionary's keys
Orders(S) ==
    {s \in [1..Cardinality(S) -> S] : \A i, j \in DOMAIN s : i # j => s[i] # s[j]}

Pos(s, x) == CHOOSE i \in DOMAIN s : s[i] = x

\* ------------------------------------------------------------ fractions
FracLeq(a, b) == a[1] * b[2] <= b[1] * a[2]
FracEq(a, b) == a[1] * b[2] = b[1] * a[2]

\* what a call produces: a number num/den, or the exception it raises
Value(n, d) == [err |-> "none", num |-> n, den |-> d]
Raised(e) == [err |-> e, num |-> 0, den |-> 1]
NoResult == [err |-> "pending", num |-> 0, den |-> 1]

RECURSIVE Sum(_)
Sum(f) ==
    IF DOMAIN f = {} THEN 0
    ELSE LET x == CHOOSE y \in DOMAIN f : TRUE
         IN f[x] + Sum([y \in (DOMAIN f) \ {x} |-> f[y]])

\* ---------------------------------------------------------- match_labels
\* key = label, val = set of nodes with that label
nodesets_per_label(d) ==
    [l \in {d[n] : n \in DOMAIN d} |-> {n \in DOMAIN d : d[n] = l}]

jaccard(nodeset_t_minus_1, nodeset_t) ==
    <<Cardinality(nodeset_t_minus_1 \cap nodeset_t),
      Cardinality(nodeset_t_minus_1 \cup nodeset_t)>>

\* overlap_graph is an undirected nx.Graph whose vertices are the label
\* identifiers themselves: an edge is the set of its one or two end labels,
\* and add_edge on an existing edge overwrites its weight.  The loops write
\* the pair (l_t, l_t_minus_1) in the order of the outer loop over the
\* t-labels, so the weight an edge keeps is that of its last write.
OverlapGraph(d, pd, order) ==
    LET nst == nodesets_per_label(d)
        nsp == nodesets_per_label(pd)
        E == {{p[1], p[2]} : p \in (DOMAIN nst) \X (DOMAIN nsp)}
        Writes(e) == {p \in e \X e : /\ p[1] \in DOMAIN nst
                                     /\ p[2] \in DOMAIN nsp
                                     /\ {p[1], p[2]} = e}
        Last(e) == CHOOSE p \in Writes(e) :
                      \A q \in Writes(e) : Pos(order, q[1]) <= Pos(order, p[1])
    IN [e \in E |-> jaccard(nsp[Last(e)[2]], nst[Last(e)[1]])]

GraphNodes(og) == UNION (DOMAIN og)

\* overlap_graph[v]: the neighbours of v (v itself when it has a self-loop)
Nbrs(og, v) == {n \in GraphNodes(og) : {v, n} \in DOMAIN og}

\* max(..., key=itemgetter(1)) returns the first neighbour of maximal weight
\* in the iteration order of the adjacency dictionary: any neighbour of
\* maximal weight can be the one returned.
MaxWtNbrs(og, v) ==
    {n \in Nbrs(og, v) : \A n2 \in Nbrs(og, v) : FracLeq(og[{v, n2}], og[{v, n}])}

\* every vertex gets exactly one out-edge, to a neighbour of maximal weight
RECURSIVE MaxOverlapDigraphs(_, _)
MaxOverlapDigraphs(og, vs) ==
    IF vs = {} THEN {<<>>}
    ELSE LET v == CHOOSE x \in vs : TRUE
         IN {(v :> n) @@ f : n \in MaxWtNbrs(og, v),
                             f \in MaxOverlapDigraphs(og, vs \ {v})}

\* variant: the reciprocity test is left out
BestMatchedLabel_NoReciprocity(dg, l_t) == dg[l_t]

\* match if it is a bi-directional edge
BestMatchedLabel(dg, l_t) ==
    LET match_l_t_minus_1 == dg[l_t]
    IN IF dg[match_l_t_minus_1] = l_t THEN match_l_t_minus_1 ELSE l_t

\* variant: only the nodes of matched labels are emitted
MatchedLabelDict_MatchedOnly(d, dg) ==
    [n \in {x \in DOMAIN d : BestMatchedLabel(dg, d[x]) # d[x]}
        |-> BestMatchedLabel(dg, d[n])]

MatchedLabelDict(d, dg) ==
    [n \in DOMAIN d |-> BestMatchedLabel(dg, d[n])]

NoGraph == <<>>

\* ------------------------------------------------------------- graphs
\* An nx.Graph is undirected.  edges(), edges_iter() and edges(data=True)
\* report each edge once, as the tuple (u, v) with u the end node that comes
\* first in the iteration order of the graph's node dictionary.  A graph is
\* kept as what edges(data=True) reports: a function from the reported
\* tuples to the 'weight' attribute.
UndirectedEdges == {e \in SUBSET Vertices : Cardinality(e) = 2}

EdgeWeights ==
    UNION {[E -> Weights] :
              E \in {F \in SUBSET UndirectedEdges : Cardinality(F) <= MaxEdges}}

edges_data(order, w) ==
    [e \in {<<order[p[1]], order[p[2]]>> :
               p \in {q \in (DOMAIN order) \X (DOMAIN order) :
                         q[1] < q[2] /\ {order[q[1]], order[q[2]]} \in DOMAIN w}}
        |-> w[{e[1], e[2]}]]

Graphs == {edges_data(order, w) : order \in Orders(Vertices), w \in EdgeWeights}

edges(g) == DOMAIN g

\* G.size(weight='weight'): the sum of the weights of the edges
size(g) == Sum(g)

\* ------------------------------------------------------- graph_distance
graph_distance(a, b, w) ==
    LET intersection == edges(b) \cap edges(a)
    IN IF ~w
       THEN LET union == edges(b) \cup edges(a)
            IN IF Cardinality(union) = 0
               THEN Raised("ZeroDivisionError")
               ELSE Value(Cardinality(union) - Cardinality(intersection),
                          Cardinality(union))
       ELSE LET dot_product == Sum([i \in intersection |-> a[i] * b[i]])
                e1_norm == Sum([i \in edges(b) |-> b[i] * b[i]])
                e0_norm == Sum([i \in edges(a) |-> a[i] * a[i]])
                denominator == e0_norm + e1_norm - dot_product
            IN IF denominator = 0
               THEN Raised("ZeroDivisionError")
               \* 1 - dot_product/denominator
               ELSE Value(denominator - dot_product, denominator)

\* --------------------------------------------------------- Estrangement
\* variant: the numerator ranges over the consort edges only
Estrangement_ConsortOnly(g, d, z) ==
    LET consort_edge_set == edges(z) \cap edges(g)
        estranged == {e \in consort_edge_set : d[e[1]] # d[e[2]]}
    IN IF Cardinality(consort_edge_set) = 0
       THEN Value(0, 1)
       ELSE IF \E e \in edges(z) : e[1] \notin DOMAIN d \/ e[2] \notin DOMAIN d
       THEN Raised("KeyError")
       ELSE IF size(g) = 0
       THEN Raised("ZeroDivisionError")
       ELSE Value(Sum([e \in estranged |-> z[e]]), size(g))

\* variant: a Zgraph edge with an unlabelled end node is skipped
Estrangement_SkipMissing(g, d, z) ==
    LET consort_edge_set == edges(z) \cap edges(g)
        estranged == {e \in edges(z) : /\ e[1] \in DOMAIN d
                                       /\ e[2] \in DOMAIN d
                                       /\ d[e[1]] # d[e[2]]}
    IN IF Cardinality(consort_edge_set) = 0
       THEN Value(0, 1)
       ELSE IF size(g) = 0
       THEN Raised("ZeroDivisionError")
       ELSE Value(Sum([e \in estranged |-> z[e]]), size(g))

Estrangement(g, d, z) ==
    LET consort_edge_set == edges(z) \cap edges(g)
        estranged == {e \in edges(z) : d[e[1]] # d[e[2]]}
    IN IF Cardinality(consort_edge_set) = 0
       THEN Value(0, 1)
       ELSE IF \E e \in edges(z) : e[1] \notin DOMAIN d \/ e[2] \notin DOMAIN d
       THEN Raised("KeyError")
       ELSE IF size(g) = 0
       THEN Raised("ZeroDivisionError")
       ELSE Value(Sum([e \in estranged |-> z[e]]), size(g))

\* ------------------------------------------------------- specifications
NoMatchCall ==
    /\ prev_label_dict = EmptyDict
    /\ overlap_graph = NoGraph
    /\ max_overlap_digraph = NoGraph
    /\ matched_label_dict = EmptyDict

NoDistanceCall ==
    /\ g0 = NoGraph
    /\ g1 = NoGraph
    /\ weighted = FALSE
    /\ distance = NoResult

NoEstrangementCall ==
    /\ G = NoGraph
    /\ Zgraph = NoGraph
    /\ estrangement = NoResult

InitMatch ==
    /\ pc = "match_labels"
    /\ label_dict \in LabelDicts(Nodes, Labels)
    /\ prev_label_dict \in LabelDicts(Nodes, Labels)
    /\ overlap_graph = NoGraph
    /\ max_overlap_digraph = NoGraph
    /\ matched_label_dict = EmptyDict
    /\ NoDistanceCall
    /\ NoEstrangementCall

\* corner case for the first snapshot
MatchLabelsFirstSnapshot ==
    /\ pc = "match_labels"
    /\ prev_label_dict = EmptyDict
    /\ matched_label_dict' = label_dict
    /\ pc' = "returned"
    /\ UNCHANGED <<label_dict, prev_label_dict, overlap_graph, max_overlap_digraph>>
    /\ UNCHANGED <<distance_vars, estrangement_vars>>

MatchLabels ==
    /\ pc = "match_labels"
    /\ prev_label_dict # EmptyDict
    /\ \E order \in Orders(DOMAIN nodesets_per_label(label_dict)) :
         LET og == OverlapGraph(label_dict, prev_label_dict, order)
         IN /\ overlap_graph' = og
            /\ \E dg \in MaxOverlapDigraphs(og, GraphNodes(og)) :
                 /\ max_overlap_digraph' = dg
                 /\ matched_label_dict' = MatchedLabelDict(label_dict, dg)
    /\ pc' = "returned"
    /\ UNCHANGED <<label_dict, prev_label_dict>>
    /\ UNCHANGED <<distance_vars, estrangement_vars>>

NextMatch == MatchLabelsFirstSnapshot \/ MatchLabels

SpecMatch == InitMatch /\ [][NextMatch]_vars

InitDistance ==
    /\ pc = "graph_distance"
    /\ g0 \in Graphs
    /\ g1 \in Graphs
    /\ weighted \in BOOLEAN
    /\ distance = NoResult
    /\ label_dict = EmptyDict
    /\ NoMatchCall
    /\ NoEstrangementCall

GraphDistance ==
    /\ pc = "graph_distance"
    /\ distance' = graph_distance(g0, g1, weighted)
    /\ pc' = "returned"
    /\ UNCHANGED <<g0, g1, weighted, label_dict, prev_label_dict>>
    /\ UNCHANGED <<match_vars, estrangement_vars>>

NextDistance == GraphDistance

SpecDistance == InitDistance /\ [][NextDistance]_vars

InitEstrangement ==
    /\ pc = "Estrangement"
    /\ G \in Graphs
    /\ Zgraph \in Graphs
    /\ label_dict \in LabelDicts(Vertices, TwoLabels)
    /\ estrangement = NoResult
    /\ NoMatchCall
    /\ NoDistanceCall

CallEstrangement ==
    /\ pc = "Estrangement"
    /\ estrangement' = Estrangement(G, label_dict, Zgraph)
    /\ pc' = "returned"
    /\ UNCHANGED <<G, Zgraph, label_dict, prev_label_dict>>
    /\ UNCHANGED <<match_vars, distance_vars>>

NextEstrangement == CallEstrangement

SpecEstrangement == InitEstrangement /\ [][NextEstrangement]_vars

\* ------------------------------------------------- match_labels: claims
Returned == pc = "returned"
LabelsT == DOMAIN nodesets_per_label(label_dict)
LabelsTMinus1 == DOMAIN nodesets_per_label(prev_label_dict)
NodesetT(l) == nodesets_per_label(label_dict)[l]
NodesetTMinus1(l) == nodesets_per_label(prev_label_dict)[l]
\* the label the output gives to the nodes of t-label l
OutLabel(l) == matched_label_dict[CHOOSE n \in NodesetT(l) : TRUE]
SameNodes == DOMAIN matched_label_dict = DOMAIN label_dict

\* C1: match_labels never merges or splits communities: with a non-empty
\* prev_label_dict (label identifiers may coincide between the mappings), two
\* nodes of label_dict carry the same label in the output if and only if they
\* carry the same label in label_dict.
C1_NeverMergesOrSplits ==
    (Returned /\ prev_label_dict # EmptyDict) =>
        /\ SameNodes
        /\ \A n1, n2 \in DOMAIN label_dict :
              (matched_label_dict[n1] = matched_label_dict[n2])
                  <=> (label_dict[n1] = label_dict[n2])

\* a call with two t-labels, an identifier shared by both mappings, and a
\* t-label that was renamed
C1_Witness ==
    /\ Returned
    /\ prev_label_dict # EmptyDict
    /\ Cardinality(LabelsT) >= 2
    /\ LabelsT \cap LabelsTMinus1 # {}
    /\ \E l \in LabelsT : OutLabel(l) # l

\* C2: whenever the nodes of a t-label l_t get a label m # l_t, m is a t-1
\* label, m's node set has the maximum Jaccard similarity with l_t's node set
\* among all t-1 labels and l_t's node set has the maximum Jaccard similarity
\* with m's node set among all t-labels (stated for every input with a
\* non-empty prev_label_dict, shared identifiers included).
C2_RenamedOnlyToReciprocalBest ==
    (Returned /\ prev_label_dict # EmptyDict /\ SameNodes) =>
        \A l_t \in LabelsT :
            LET m == OutLabel(l_t)
            IN m # l_t =>
                 /\ m \in LabelsTMinus1
                 /\ \A l \in LabelsTMinus1 :
                        FracLeq(jaccard(NodesetTMinus1(l), NodesetT(l_t)),
                                jaccard(NodesetTMinus1(m), NodesetT(l_t)))
                 /\ \A l \in LabelsT :
                        FracLeq(jaccard(NodesetTMinus1(m), NodesetT(l)),
                                jaccard(NodesetTMinus1(m), NodesetT(l_t)))

\* C3: a t-label whose node set has Jaccard similarity 0 with the node set of
\* every t-1 label is not matched: its nodes keep their original label.
C3_ZeroOverlapKeepsLabel ==
    (Returned /\ prev_label_dict # EmptyDict /\ SameNodes) =>
        \A l_t \in LabelsT :
            (\A l \in LabelsTMinus1 :
                 jaccard(NodesetTMinus1(l), NodesetT(l_t))[1] = 0)
                => OutLabel(l_t) = l_t

\* the two mappings are defined on the same nodes and induce the same
\* grouping, every group being named differently at t than at t-1
SameGroupingRenamed ==
    /\ DOMAIN label_dict = DOMAIN prev_label_dict
    /\ DOMAIN label_dict # {}
    /\ \A n \in DOMAIN label_dict : label_dict[n] # prev_label_dict[n]
    /\ \A n1, n2 \in DOMAIN label_dict :
          (label_dict[n1] = label_dict[n2])
              <=> (prev_label_dict[n1] = prev_label_dict[n2])

\* C4: identity property: under SameGroupingRenamed (names of one mapping may
\* be reused by the other for a different group) every node receives in the
\* output the label it has in prev_label_dict, for every iteration order.
C4_IdentityProperty ==
    (Returned /\ SameGroupingRenamed) => matched_label_dict = prev_label_dict

\* C5: the output maps exactly the nodes of label_dict, for every
\* prev_label_dict, and equals label_dict when prev_label_dict is empty.
C5_PreservesNodeSet ==
    Returned =>
        /\ DOMAIN matched_label_dict = DOMAIN label_dict
        /\ prev_label_dict = EmptyDict => matched_label_dict = label_dict

\* a call with history in which one t-label is renamed and another keeps
\* its name
C5_Witness ==
    /\ Returned
    /\ prev_label_dict # EmptyDict
    /\ SameNodes
    /\ \E l \in LabelsT : OutLabel(l) # l
    /\ \E l \in LabelsT : OutLabel(l) = l

\* the first-snapshot call on a non-empty label_dict
C5_WitnessFirstSnapshot ==
    /\ Returned
    /\ prev_label_dict = EmptyDict
    /\ label_dict # EmptyDict
    /\ matched_label_dict = label_dict

\* ----------------------------------------------- graph_distance: claims
\* the undirected edges of a graph, whatever orientation it reports them in
UEdges(g) == {{e[1], e[2]} : e \in edges(g)}
\* the weight of undirected edge e of graph g
UWeight(g, e) == g[CHOOSE t \in edges(g) : {t[1], t[2]} = e]

\* C6: unweighted graph_distance treats (u,v) and (v,u) as the same edge: for
\* two graphs with at least one edge between them, in whatever orientation each
\* graph reports its edges, the result is (|U| - |I|)/|U| with U and I the
\* union and the intersection of the two undirected edge sets; so the same
\* undirected edges give 0, and 1 is returned only without a shared edge.
C6_UnweightedOrderIndependent ==
    (Returned /\ ~weighted /\ UEdges(g0) \cup UEdges(g1) # {}) =>
        LET U == UEdges(g0) \cup UEdges(g1)
            I == UEdges(g0) \cap UEdges(g1)
        IN /\ distance.err = "none"
           /\ FracEq(<<distance.num, distance.den>>,
                     <<Cardinality(U) - Cardinality(I), Cardinality(U)>>)
           /\ UEdges(g0) = UEdges(g1) => distance.num = 0
           /\ distance.num = distance.den => I = {}

\* C10: weighted graph_distance is in [0,1] for graphs with non-negative
\* weights that have some positive-weight edge: 0 <= dot <= norm0 + norm1 - dot
\* with a positive denominator, and the result is 0 when both graphs have the
\* same edges with the same weights.
C10_WeightedRange ==
    (/\ Returned
     /\ weighted
     /\ (\E e \in edges(g0) : g0[e] > 0) \/ (\E f \in edges(g1) : g1[f] > 0)) =>
        /\ distance.err = "none"
        /\ distance.den > 0
        /\ 0 <= distance.num
        /\ distance.num <= distance.den
        /\ (/\ UEdges(g0) = UEdges(g1)
            /\ \A e \in UEdges(g0) : UWeight(g0, e) = UWeight(g1, e))
              => distance.num = 0

\* ------------------------------------------------- Estrangement: claims
\* every edge the two graphs have in common is reported in the same orientation
SameOrientation == \A e \in edges(Zgraph) : <<e[2], e[1]>> \notin edges(G)
\* label_dict has an entry for every end node of the edges of graph g
Covers(g) == \A e \in edges(g) : e[1] \in DOMAIN label_dict /\ e[2] \in DOMAIN label_dict
\* the Zgraph edges whose end nodes have different labels
Estranged == {e \in edges(Zgraph) : label_dict[e[1]] # label_dict[e[2]]}

MissingEntry == ~Covers(Zgraph)

\* C8 as stated: Estrangement signals an error for every call in which
\* label_dict lacks an entry for an end node of a Zgraph edge, whether or not
\* Zgraph shares an edge with G.
C8_AlwaysSignalsMissingEntry ==
    (Returned /\ MissingEntry) => estrangement.err = "KeyError"

\* C8 amended: Estrangement signals an error, and returns no value, for every
\* call in which label_dict lacks an entry for an end node of a Zgraph edge and
\* Zgraph and G report at least one common edge (same nodes, same orientation);
\* when they report no common edge the result is 0 and label_dict is not
\* consulted.
C8_SignalsMissingEntryWhenConsort ==
    (Returned /\ MissingEntry) =>
        IF edges(Zgraph) \cap edges(G) # {}
        THEN estrangement.err = "KeyError"
        ELSE estrangement = Value(0, 1)

\* a call with a common edge and a missing entry, which raised
C8_Witness ==
    /\ Returned
    /\ MissingEntry
    /\ edges(Zgraph) \cap edges(G) # {}
    /\ estrangement.err = "KeyError"

\* C9: the result is a fraction of the weight of G: for G of positive total
\* weight, Zgraph of non-negative weights and label_dict covering both graphs
\* it lies between 0 and 1 inclusive.
C9_EstrangementAtMostOne ==
    (Returned /\ size(G) > 0 /\ Covers(Zgraph) /\ Covers(G)) =>
        /\ estrangement.err = "none"
        /\ 0 <= estrangement.num
        /\ estrangement.num <= estrangement.den

====
